---- MODULE Spec2Model ----
(***************************************************************************)
(* Model of wscpp's WebSocket client (src/wsclient.cpp): the connection    *)
(* object ws::client_pimpl, its constructor with the HTTP upgrade          *)
(* handshake, its background receive thread, the send path and the         *)
(* destructor.                                                             *)
(*                                                                         *)
(* Threads of the model:                                                   *)
(*   RecvT       the thread created by the constructor (lines 133-146),    *)
(*               position rpc;                                             *)
(*   AppThreads  application threads calling client::send, position spc;   *)
(*   the thread running ~client_pimpl, position dpc.                       *)
(* Everything observable (bytes written to the socket, callbacks invoked)  *)
(* is appended to one log, trace, so that order between them is kept.  A   *)
(* write is logged as the bytes reach the socket: a call of ::send that    *)
(* waits for room has logged the bytes it wrote before.  When the process  *)
(* ends (SIGPIPE inside ::send, std::terminate) every position is "killed" *)
(* (inside the constructor: hs, and rpc stays "none", no thread exists).   *)
(*                                                                         *)
(* The receive thread and the constructor are followed at two levels: by   *)
(* the frames and responses they decode (RecvFrame, HsResponse), and byte  *)
(* by byte on the socket's receive buffer, wire (DecHeader .. DecPayload,  *)
(* RecvHttp).                                                              *)
(***************************************************************************)
EXTENDS Integers, Sequences, FiniteSets, TLC

\* ------------------------------------------------------------------ bounds
MaxFrames == 3      \* frames the peer sends on one connection
MaxPayload == 1     \* payload bytes of one inbound frame
MaxSends == 2       \* client::send calls of one connection
MaxDrain == 1       \* non-empty reads of the destructor's drain loop
MaxWaits == 1       \* times one call of ::send waits for room

\* ----------------------------------------------------------------- opcodes
\* enum class opcode (wscpp.h).  The wire value 0 (RFC 6455 continuation) is
\* the enumerator `invalid`: recv_thread casts the low nibble to the enum
\* without any mapping (line 696), and the FIN=0 branch keeps last_opcode
\* exactly when the fragment's opcode is `invalid` (line 750).
invalid == 0
text == 1
binary == 2
close == 8
ping == 9
pong == 10

\* The values the cast of line 696 produces: the low four bits of the first
\* header byte, the reserved opcodes included.
Opcodes == 0..15
\* The values an uninitialised last_opcode (one byte) can hold.
UninitValues == 0..255
Bytes == {1, 2}

RECURSIVE SeqsUpTo(_, _)
SeqsUpTo(S, n) ==
    IF n = 0 THEN {<<>>}
    ELSE LET shorter == SeqsUpTo(S, n - 1)
         IN  shorter \cup {Append(s, x) : s \in {t \in shorter : Len(t) = n - 1}, x \in S}

Payloads == SeqsUpTo(Bytes, MaxPayload)

\* A decoded inbound frame: the locals fin, opcode and (unmasked) payload of
\* one iteration of recv_thread.
Frames == [fin : BOOLEAN, opcode : Opcodes, payload : Payloads]
\* The frames the receive thread is fed.  Text, continuation, close and ping
\* frames come with either FIN bit and with or without a payload byte; the
\* second payload byte value is there for the order of concatenation, in
\* text frames.  Binary and pong frames and those of one reserved opcode
\* (parse_ws_message treats every opcode but close and ping alike) come
\* unfragmented and empty.
reserved == 3
FedFrames ==
    {f \in Frames : \/ f.opcode = text
                    \/ f.opcode \in {invalid, close, ping} /\ f.payload # <<2>>
                    \/ f.opcode \in {binary, reserved, pong} /\ f.fin /\ f.payload = <<>>}
\* The frames used where the reassembler is not the subject.
PlainFrames ==
    {f \in Frames : f.fin /\ f.payload = <<>> /\ f.opcode \in {text, close, ping, pong}}

\* frame before the first iteration (nframes = 0) and msg outside of
\* parse_ws_message.
NoFrame == [fin |-> TRUE, opcode |-> invalid, payload |-> <<>>]
NoMsg == [op |-> invalid, payload |-> <<>>, none |-> TRUE]
\* last_opcode has no value before the first FIN=0 frame with an opcode
\* other than invalid stores one.
Uninit == -1

RecvT == "recv"
AppThreads == {"app1", "app2"}
Threads == AppThreads \cup {RecvT}

VARIABLES
    open,            \* client_pimpl::open
    payloadbuf,      \* client_pimpl::payloadbuf
    last_opcode,     \* client_pimpl::last_opcode
    msg_handler,     \* is a message handler registered
    disconn_handler, \* is a disconnect handler registered
    sock,            \* "none", "open", "released" (after close(sock))
    rpc,             \* position of the receive thread
    frame,           \* the frame the receive thread decoded last
    msg,             \* arguments of the running parse_ws_message call
    except,          \* the lambda's exception_ptr: TRUE when set
    nframes,         \* frames decoded so far
    spc,             \* spc[t]: position of thread t inside client::send
    sarg,            \* sarg[t]: arguments of t's running send
    sid,             \* sid[t]: number of t's running send
    nsends,          \* send calls started so far
    nwritten,        \* nwritten[t]: bytes t's running ::send has put on the socket
    nwaits,          \* nwaits[t]: times t's running ::send has waited for room
    trace,           \* log of socket writes and callback invocations
    dpc,             \* position of the destructor
    ndrain,          \* non-empty reads done by the destructor
    readReleased,    \* the receive thread called ::recv on a released socket
    inbound,         \* history: the frames decoded so far, in arrival order
    cause,           \* history: what ended the receive loop
    hs,              \* position of the constructor: "new", "await", "up", "failed",
                     \* "killed"
    key,             \* send_handshake's key
    mess,            \* send_handshake's mess: the response it parsed last
    fqdn,            \* client_pimpl::fqdn is not empty
    win32,           \* the build defines _WIN32
    reqs,            \* requests sent that the peer has not answered yet
    nrounds,         \* responses parsed so far
    wire,            \* the socket's receive buffer: bytes arrived and not yet read
    pending,         \* bytes the peer has sent that have not arrived yet
    eof,             \* the peer closes its side after the bytes of pending
    stream,          \* history: all the bytes the peer sends on this connection
    dec,             \* locals of the running iteration of recv_thread
    http             \* locals of the running call of recv_http

vars == <<open, payloadbuf, last_opcode, msg_handler, disconn_handler, sock, rpc,
          frame, msg, except, nframes, spc, sarg, sid, nsends, nwritten, nwaits, trace,
          dpc,
          ndrain,
          readReleased, inbound, cause, hs, key, mess, fqdn, win32, reqs, nrounds,
          wire, pending, eof, stream, dec, http>>

hsVars == <<hs, key, mess, fqdn, win32, reqs, nrounds>>
wireVars == <<wire, pending, eof, stream, dec, http>>

recvVars == <<open, payloadbuf, last_opcode, rpc, frame, msg, except, nframes, inbound,
              cause>>
sendVars == <<spc, sarg, sid, nsends, nwritten, nwaits>>
dtorVars == <<dpc, ndrain>>
cfgVars == <<msg_handler, disconn_handler>>

\* ------------------------------------------------------------- client::send
\* The k low bytes of n, most significant first (lines 582-583, 588-595).
RECURSIVE BE(_, _)
BE(n, k) == IF k = 0 THEN <<>> ELSE BE(n \div 256, k - 1) \o <<n % 256>>

\* The bytes of the header client::send builds for a payload of len bytes.
Header(opcode, len) ==
    IF len <= 125
      THEN <<128 + (opcode % 16), 128 + len, 0, 0, 0, 0>>
    ELSE IF len < 65536
      THEN <<128 + (opcode % 16), 254>> \o BE(len, 2) \o <<0, 0, 0, 0>>
    ELSE <<128 + (opcode % 16), 255>> \o BE(len, 8) \o <<0, 0, 0, 0>>

\* Bytes of one write as seen on the socket: who wrote, for which send call,
\* which of the two send_raw calls of client::send it is, and the bytes.
Write(t, part, bytes) ==
    [ev |-> part, by |-> t, id |-> sid[t], op |-> sarg[t].op, bytes |-> bytes, err |-> FALSE]

\* The log after thread t put bytes on the socket: they follow what t's
\* running ::send has written when nothing was written in between.
Put(t, part, bytes) ==
    IF /\ nwritten[t] > 0
       /\ trace[Len(trace)].by = t
       /\ trace[Len(trace)].id = sid[t]
       /\ trace[Len(trace)].ev = part
      THEN [trace EXCEPT ![Len(trace)].bytes = @ \o bytes]
      ELSE Append(trace, Write(t, part, bytes))

\* A thread enters client::send(payload, opcode).
BeginSend(t, opcode, payload) ==
    /\ spc' = [spc EXCEPT ![t] = "header"]
    /\ sarg' = [sarg EXCEPT ![t] = [op |-> opcode, payload |-> payload]]
    /\ sid' = [sid EXCEPT ![t] = nsends + 1]
    /\ nsends' = nsends + 1
    /\ nwritten' = [nwritten EXCEPT ![t] = 0]
    /\ nwaits' = [nwaits EXCEPT ![t] = 0]

\* An application thread calls client::send.
AppSend(t, opcode, payload) ==
    /\ t \in AppThreads
    /\ spc[t] = "idle"
    /\ sock # "none"
    /\ dpc = "live"
    /\ nsends < MaxSends
    /\ BeginSend(t, opcode, payload)
    /\ UNCHANGED <<recvVars, cfgVars, sock, trace, dtorVars, readReleased>>
    /\ UNCHANGED <<hsVars, wireVars>>

\* What the call ::send(sock, s.data(), s.length(), 0) of line 239 can come
\* to: "all" (it returns s.length(), at once or after it waited), "part" (the
\* socket's buffer is full: k more bytes are written and the call waits for
\* room), "fail" (it returns -1, or, having waited, the count written so
\* far) and "signal" (the peer has closed or reset the connection and the
\* call raises SIGPIPE, which is not blocked by a flag and, left at its
\* default disposition, ends the process; there is no such signal in a
\* _WIN32 build).
SendOutcomes == {"all", "part", "fail", "signal"}

\* The byte counts after which a call of ::send with n bytes left to write
\* can wait for room: the kernel decides, any count short of n can occur.
Blocks(n) == 1..(n - 1)

\* The process ends: no thread takes another step.
Killed ==
    /\ rpc' = "killed"
    /\ spc' = [t \in Threads |-> "killed"]
    /\ dpc' = "killed"

\* send_raw throws, lines 245-256: the exception leaves client::send; on the
\* receive thread it leaves recv_thread as well and is caught by the lambda.
\* The bytes ::send has written stay written.
SendThrows(t) ==
    /\ spc' = [spc EXCEPT ![t] = "idle"]
    /\ nwritten' = [nwritten EXCEPT ![t] = 0]
    /\ nwaits' = [nwaits EXCEPT ![t] = 0]
    /\ IF t = RecvT
         THEN except' = TRUE /\ rpc' = "exit" /\ cause' = "send"
         ELSE UNCHANGED <<except, rpc, cause>>
    /\ UNCHANGED <<trace, dpc>>

\* SIGPIPE ends the process inside ::send, before a byte was written.
SendKilled(t) ==
    /\ nwritten[t] = 0
    /\ Killed
    /\ cause' = IF t = RecvT THEN "signal" ELSE cause
    /\ UNCHANGED <<trace, nwritten, nwaits, except>>

\* One step of the call of ::send by thread t, for the bytes of its running
\* send_raw; k is the count of bytes the step writes when the call waits
\* after them, next is where t goes on when send_raw has returned.
SendRaw(t, part, bytes, outcome, k, next) ==
    IF outcome = "all" /\ sock = "open"
      THEN /\ trace' = Put(t, part, SubSeq(bytes, nwritten[t] + 1, Len(bytes)))
           /\ nwritten' = [nwritten EXCEPT ![t] = 0]
           /\ nwaits' = [nwaits EXCEPT ![t] = 0]
           /\ spc' = [spc EXCEPT ![t] = next]
           /\ rpc' = IF t = RecvT /\ next = "idle" THEN "handler" ELSE rpc
           /\ UNCHANGED <<except, cause, dpc>>
    ELSE IF outcome = "part" /\ sock = "open"
      THEN /\ k \in Blocks(Len(bytes) - nwritten[t])
           /\ trace' = Put(t, part, SubSeq(bytes, nwritten[t] + 1, nwritten[t] + k))
           /\ nwritten' = [nwritten EXCEPT ![t] = @ + k]
           /\ nwaits' = [nwaits EXCEPT ![t] = @ + 1]
           /\ UNCHANGED <<spc, rpc, except, cause, dpc>>
    ELSE IF outcome = "signal" /\ sock = "open" /\ ~win32
      THEN SendKilled(t)
    ELSE SendThrows(t)

\* impl->send_raw(header, timeout), line 599.
SendHeader(t, outcome, k) ==
    /\ spc[t] = "header"
    /\ SendRaw(t, "header", Header(sarg[t].op, Len(sarg[t].payload)), outcome, k,
               "payload")
    /\ UNCHANGED <<open, payloadbuf, last_opcode, frame, msg, nframes, inbound, sarg,
                   sid, nsends, cfgVars, sock, ndrain, readReleased>>
    /\ UNCHANGED <<hsVars, wireVars>>

\* impl->send_raw(payload, timeout), line 600, and the return of client::send;
\* on the receive thread parse_ws_message goes on to the message handler.
SendPayload(t, outcome, k) ==
    /\ spc[t] = "payload"
    /\ SendRaw(t, "payload", sarg[t].payload, outcome, k, "idle")
    /\ UNCHANGED <<open, payloadbuf, last_opcode, frame, msg, nframes, inbound, sarg,
                   sid, nsends, cfgVars, sock, ndrain, readReleased>>
    /\ UNCHANGED <<hsVars, wireVars>>

\* --------------------------------------------------- the receive thread
Msg(opcode, payload) == [op |-> opcode, payload |-> payload, none |-> FALSE]

Called(opcode, payload) ==
    [ev |-> "msg", by |-> RecvT, id |-> 0, op |-> opcode, bytes |-> payload, err |-> FALSE]

Disconnected(e) ==
    [ev |-> "disconn", by |-> RecvT, id |-> 0, op |-> invalid, bytes |-> <<>>, err |-> e]

\* parse_ws_message(opcode, payload), lines 670-682, up to its first call
\* that can block: close clears the flag and returns (the caller then clears
\* payloadbuf, line 756); ping enters parent.send(payload, opcode::pong);
\* every other opcode goes to the message handler.
ParseWsMessage(opcode, payload) ==
    IF opcode = close
      THEN /\ open' = FALSE
           /\ payloadbuf' = <<>>
           /\ msg' = NoMsg
           /\ rpc' = "loop"
           /\ cause' = "close"
           /\ UNCHANGED sendVars
    ELSE IF opcode = ping
      THEN /\ msg' = Msg(opcode, payload)
           /\ rpc' = "pong"
           /\ BeginSend(RecvT, pong, payload)
           /\ UNCHANGED <<open, payloadbuf, cause>>
    ELSE /\ msg' = Msg(opcode, payload)
         /\ rpc' = "handler"
         /\ UNCHANGED <<open, payloadbuf, cause, sendVars>>

\* One iteration of the loop of recv_thread in which every recv call returns
\* its bytes (lines 689-758): f is the decoded frame.  Line 755 reads
\* last_opcode; before its first assignment that read gives any value.
RecvFrame(f) ==
    /\ rpc = "loop"
    /\ open
    /\ sock # "none"
    /\ nframes < MaxFrames
    /\ frame' = f
    /\ nframes' = nframes + 1
    /\ inbound' = Append(inbound, f)
    /\ readReleased' = (readReleased \/ sock = "released")
    /\ IF ~f.fin
         THEN /\ last_opcode' = IF f.opcode # invalid THEN f.opcode ELSE last_opcode
              /\ payloadbuf' = payloadbuf \o f.payload
              /\ UNCHANGED <<open, msg, rpc, cause, sendVars>>
       ELSE IF payloadbuf # <<>>
         THEN /\ \E u \in (IF last_opcode = Uninit THEN UninitValues ELSE {last_opcode}) :
                     ParseWsMessage(u, payloadbuf \o f.payload)
              /\ UNCHANGED last_opcode
       ELSE /\ ParseWsMessage(f.opcode, f.payload)
            /\ UNCHANGED last_opcode
    /\ UNCHANGED <<except, cfgVars, sock, trace, dtorVars>>
    /\ UNCHANGED <<hsVars, wireVars>>

\* client_pimpl::recv meets the end of the stream, a reset or another error
\* (lines 638-665) at one of the reads of an iteration: end of stream and
\* ECONNRESET clear the flag and return "" (the loop breaks at its next
\* test of open); any other error throws out of recv_thread.
RecvFail(kind) ==
    /\ rpc = "loop"
    /\ open
    /\ sock # "none"
    /\ readReleased' = (readReleased \/ sock = "released")
    /\ cause' = kind
    /\ IF kind \in {"eof", "reset"}
         THEN open' = FALSE /\ UNCHANGED <<rpc, except>>
         ELSE except' = TRUE /\ rpc' = "exit" /\ UNCHANGED open
    /\ UNCHANGED <<payloadbuf, last_opcode, frame, msg, nframes, inbound, sendVars,
                   cfgVars, sock, trace, dtorVars>>
    /\ UNCHANGED <<hsVars, wireVars>>

\* msg_handler(parent, payload, opcode), lines 684-685: the handler returns
\* and so does parse_ws_message (payloadbuf = "", line 756), or the handler
\* throws, which leaves recv_thread.
Handler(returns) ==
    /\ rpc = "handler"
    /\ trace' = IF msg_handler THEN Append(trace, Called(msg.op, msg.payload)) ELSE trace
    /\ msg' = NoMsg
    /\ IF returns \/ ~msg_handler
         THEN /\ payloadbuf' = <<>>
              /\ rpc' = "loop"
              /\ UNCHANGED <<except, cause>>
         ELSE /\ except' = TRUE
              /\ rpc' = "exit"
              /\ cause' = "handler"
              /\ UNCHANGED payloadbuf
    /\ UNCHANGED <<open, last_opcode, frame, nframes, inbound, sendVars, cfgVars, sock,
                   dtorVars, readReleased>>
    /\ UNCHANGED <<hsVars, wireVars>>

\* Mutant of LoopExit: the disconnect handler is invoked where the loop is
\* left, before the lambda invokes it.
LoopExit_Notifies ==
    /\ rpc = "loop"
    /\ ~open
    /\ rpc' = "exit"
    /\ trace' = Append(trace, Disconnected(FALSE))
    /\ UNCHANGED <<open, payloadbuf, last_opcode, frame, msg, except, nframes, inbound,
                   cause, sendVars, cfgVars, sock, dtorVars, readReleased>>
    /\ UNCHANGED <<hsVars, wireVars>>

\* while (open) is false, or a break after recv returned "": recv_thread
\* returns to the lambda.
LoopExit ==
    /\ rpc = "loop"
    /\ ~open
    /\ rpc' = "exit"
    /\ UNCHANGED <<open, payloadbuf, last_opcode, frame, msg, except, nframes, inbound,
                   cause, sendVars, cfgVars, sock, trace, dtorVars, readReleased>>
    /\ UNCHANGED <<hsVars, wireVars>>

\* Mutant of ThreadClearOpen: the lambda does not clear the flag.
ThreadClearOpen_Skipped ==
    /\ rpc = "exit"
    /\ rpc' = "notify"
    /\ UNCHANGED <<open, payloadbuf, last_opcode, frame, msg, except, nframes, inbound,
                   cause, sendVars, cfgVars, sock, trace, dtorVars, readReleased>>
    /\ UNCHANGED <<hsVars, wireVars>>

\* The lambda after recv_thread returned or threw: open = false, line 142.
ThreadClearOpen ==
    /\ rpc = "exit"
    /\ open' = FALSE
    /\ rpc' = "notify"
    /\ UNCHANGED <<payloadbuf, last_opcode, frame, msg, except, nframes, inbound,
                   cause, sendVars, cfgVars, sock, trace, dtorVars, readReleased>>
    /\ UNCHANGED <<hsVars, wireVars>>

\* if (this->disconn_handler) this->disconn_handler(parent, except), lines
\* 144-145: the handler returns and the thread ends, or the handler throws;
\* no try block is around the call, so the exception leaves the thread's
\* function and std::terminate ends the process.
ThreadNotify(returns) ==
    /\ rpc = "notify"
    /\ trace' = IF disconn_handler THEN Append(trace, Disconnected(except)) ELSE trace
    /\ IF returns \/ ~disconn_handler
         THEN rpc' = "done" /\ UNCHANGED <<spc, dpc>>
         ELSE Killed
    /\ UNCHANGED <<open, payloadbuf, last_opcode, frame, msg, except, nframes, inbound,
                   cause, sarg, sid, nsends, nwritten, nwaits, cfgVars, sock, ndrain,
                   readReleased>>
    /\ UNCHANGED <<hsVars, wireVars>>

\* ------------------------------------------------------ ~client_pimpl
\* shutdown(sock, SHUT_WR), line 163: on failure the drain and close(sock)
\* are skipped.
DtorShutdown(ok) ==
    /\ dpc = "live"
    /\ sock # "none"
    /\ \A t \in AppThreads : spc[t] = "idle"
    /\ dpc' = IF ok THEN "drain" ELSE "join"
    /\ UNCHANGED <<recvVars, sendVars, cfgVars, sock, trace, ndrain, readReleased>>
    /\ UNCHANGED <<hsVars, wireVars>>

\* char buf[4096], line 165.
DrainSize == 4096

\* ::recv(sock, buf, sizeof(buf), 0) > 0, line 167: the destructor takes the
\* bytes that have arrived, sizeof(buf) at most, and reads again.  (Where
\* the bytes of the peer are not followed, stream = <<>>, the bytes it takes
\* are not in wire.)
DtorDrain ==
    /\ dpc = "drain"
    /\ ndrain < MaxDrain
    /\ wire # <<>> \/ stream = <<>>
    /\ ndrain' = ndrain + 1
    /\ wire' = SubSeq(wire, DrainSize + 1, Len(wire))
    /\ UNCHANGED <<recvVars, sendVars, cfgVars, sock, trace, dpc, readReleased>>
    /\ UNCHANGED <<hsVars, pending, eof, stream, dec, http>>

\* ::recv returns 0 or -1, then close(sock), lines 167-173.
DtorClose ==
    /\ dpc = "drain"
    /\ sock' = "released"
    /\ dpc' = "join"
    /\ UNCHANGED <<recvVars, sendVars, cfgVars, trace, ndrain, readReleased>>
    /\ UNCHANGED <<hsVars, wireVars>>

\* t->join(); delete t, lines 185-192: returns once the thread has ended.
DtorJoin ==
    /\ dpc = "join"
    /\ rpc = "done"
    /\ dpc' = "done"
    /\ UNCHANGED <<recvVars, sendVars, cfgVars, sock, trace, ndrain, readReleased>>
    /\ UNCHANGED <<hsVars, wireVars>>

\* ------------------------------------------------ the handshake, strings
\* Strings are sequences of characters; positions are those of std::string,
\* counted from 0.
CR == "\r"
LF == "\n"
CRLF == <<CR, LF>>
SP == <<" ">>
ColonSP == <<":", " ">>
s_Upgrade ==
    <<"U", "p", "g", "r", "a", "d", "e">>
s_websocket ==
    <<"w", "e", "b", "s", "o", "c", "k", "e", "t">>
s_Connection ==
    <<"C", "o", "n", "n", "e", "c", "t", "i", "o", "n">>
s_SecWebSocketAccept ==
    <<"S", "e", "c", "-", "W", "e", "b", "S", "o", "c", "k", "e", "t", "-", "A", "c",
          "c", "e", "p", "t">>
s_WWWAuthenticate ==
    <<"W", "W", "W", "-", "A", "u", "t", "h", "e", "n", "t", "i", "c", "a", "t", "e">>
s_NTLM ==
    <<"N", "T", "L", "M">>
s_Negotiate ==
    <<"N", "e", "g", "o", "t", "i", "a", "t", "e">>
s_Basic ==
    <<"B", "a", "s", "i", "c">>
s_h2c ==
    <<"h", "2", "c">>
s_XJunk ==
    <<"X", "-", "J", "u", "n", "k">>
s_Status101 ==
    <<"H", "T", "T", "P", "/", "1", ".", "1", " ", "1", "0", "1", " ", "S", "w", "i",
          "t", "c", "h", "i", "n", "g", " ", "P", "r", "o", "t", "o", "c", "o", "l", "s">>
s_Status101Bare ==
    <<"H", "T", "T", "P", "/", "1", ".", "1", " ", "1", "0", "1">>
s_Status401 ==
    <<"H", "T", "T", "P", "/", "1", ".", "1", " ", "4", "0", "1", " ", "U", "n", "a",
          "u", "t", "h", "o", "r", "i", "z", "e", "d">>
s_Status200 ==
    <<"H", "T", "T", "P", "/", "1", ".", "1", " ", "2", "0", "0", " ", "O", "K">>
s_StatusNoCode ==
    <<"H", "T", "T", "P", "/", "1", ".", "1">>
s_StatusNotANumber ==
    <<"H", "T", "T", "P", "/", "1", ".", "1", " ", "a", "b", "c", " ", "O", "K">>
s_StatusWrapped ==
    <<"H", "T", "T", "P", "/", "1", ".", "1", " ", "4", "2", "9", "4", "9", "6", "7",
          "3", "9", "7", " ", "O", "K">>
s_StatusTrailing ==
    <<"H", "T", "T", "P", "/", "1", ".", "1", " ", "1", "0", "1", "a", "b", "c">>
s_StatusPlus ==
    <<"H", "T", "T", "P", "/", "1", ".", "1", " ", "+", "1", "0", "1", " ", "O", "K">>
s_StatusTab ==
    <<"H", "T", "T", "P", "/", "1", ".", "1", " ", "\t", "1", "0", "1", " ", "O", "K">>
\* The vertical tab, '\v': it has no escape in a string, vtab holds the
\* character itself.
vtab == ""
s_StatusVTab ==
    <<"H", "T", "T", "P", "/", "1", ".", "1", " ", vtab, "1", "0", "1", " ", "O", "K">>
s_StatusNegative ==
    <<"H", "T", "T", "P", "/", "1", ".", "1", " ", "-", "4", "2", "9", "4", "9", "6",
          "7", "1", "9", "5", " ", "O", "K">>
s_token ==
    <<"T", "l", "R", "M">>

\* string::npos
npos == -1

\* s.find(pat, from): the first position at or after from where pat occurs.
Find(s, pat, from) ==
    LET at[i \in 0..(Len(s) + 1)] ==
            IF i + Len(pat) > Len(s) THEN npos
            ELSE IF SubSeq(s, i + 1, i + Len(pat)) = pat THEN i
            ELSE at[i + 1]
    IN  at[from]

\* s.substr(pos, count) for pos <= s.size(); count is a size_t, so a
\* negative difference is a count beyond the end of the string.
Substr(s, pos, count) ==
    LET avail == Len(s) - pos
        n == IF count < 0 \/ count > avail THEN avail ELSE count
    IN  SubSeq(s, pos + 1, pos + n)

Digits == <<"0", "1", "2", "3", "4", "5", "6", "7", "8", "9">>
IsDigit(c) == \E d \in 1..10 : Digits[d] = c
DigitValue(c) == (CHOOSE d \in 1..10 : Digits[d] = c) - 1

\* An unsigned long is kept as four 16-bit limbs, least significant first:
\* the numbers of the model are 32 bits wide, an unsigned long has up to 64.
Limb == 65536
Zero64 == <<0, 0, 0, 0>>

\* 10 * l + d and whether it left 64 bits.
MulAdd10(l, d) ==
    LET t1 == 10 * l[1] + d
        t2 == 10 * l[2] + t1 \div Limb
        t3 == 10 * l[3] + t2 \div Limb
        t4 == 10 * l[4] + t3 \div Limb
    IN  [l |-> <<t1 % Limb, t2 % Limb, t3 % Limb, t4 % Limb>>, ovf |-> t4 \div Limb # 0]

\* The conversion of an unsigned long to unsigned int (the assignment of
\* line 516): its low 32 bits.  A value v of 2^31 or more is written v - 2^32.
ToUnsignedInt(l) ==
    IF l[2] < 32768 THEN l[2] * Limb + l[1] ELSE (l[2] - Limb) * Limb + l[1]

\* 2^64 - l (and 0 for 0): the negation of an unsigned long.
Neg64(l) ==
    LET b1 == IF l[1] = 0 THEN 0 ELSE 1
        b2 == IF l[2] + b1 = 0 THEN 0 ELSE 1
        b3 == IF l[3] + b2 = 0 THEN 0 ELSE 1
    IN  <<(Limb - l[1]) % Limb, (2 * Limb - l[2] - b1) % Limb,
          (2 * Limb - l[3] - b2) % Limb, (2 * Limb - l[4] - b3) % Limb>>

\* What strtoul, which std::stoul calls, passes over before the digits: white
\* space (isspace in the C locale: space, \t, \n, the vertical tab, \f and
\* \r), then one sign.
WhiteSpace == {" ", "\t", "\n", vtab, "\f", "\r"}
SignStart(ss) ==
    LET skip[i \in 1..(Len(ss) + 1)] ==
            IF i > Len(ss) THEN i ELSE IF ss[i] \in WhiteSpace THEN skip[i + 1] ELSE i
    IN  skip[1]
Negative(ss) == SignStart(ss) <= Len(ss) /\ ss[SignStart(ss)] = "-"
DigitsStart(ss) ==
    IF SignStart(ss) <= Len(ss) /\ ss[SignStart(ss)] \in {"+", "-"}
      THEN SignStart(ss) + 1
      ELSE SignStart(ss)

\* The number the digits of ss from DigitsStart(ss) on spell.
StoulFrom(ss, acc) ==
    LET from[a \in [i : Nat, l : Seq(Nat), ovf : BOOLEAN]] ==
            IF a.i > Len(ss) \/ ~IsDigit(ss[a.i]) THEN [l |-> a.l, ovf |-> a.ovf]
            ELSE from[[i |-> a.i + 1, l |-> MulAdd10(a.l, DigitValue(ss[a.i])).l,
                       ovf |-> a.ovf \/ MulAdd10(a.l, DigitValue(ss[a.i])).ovf]]
    IN  from[[i |-> DigitsStart(ss), l |-> acc.l, ovf |-> acc.ovf]]

\* stoul(ss) throws invalid_argument when no digit follows the white space
\* and the sign, and out_of_range when the number the digits spell does not
\* fit an unsigned long: 64 bits, and 32 bits in a _WIN32 build.
StoulThrows(ss) ==
    \/ DigitsStart(ss) > Len(ss)
    \/ ~IsDigit(ss[DigitsStart(ss)])
    \/ LET v == StoulFrom(ss, [l |-> Zero64, ovf |-> FALSE])
       IN  v.ovf \/ (win32 /\ (v.l[3] # 0 \/ v.l[4] # 0))

\* status = stoul(ss), line 516: the value, negated after a minus sign, as
\* an unsigned int.
Stoul(ss) ==
    LET v == StoulFrom(ss, [l |-> Zero64, ovf |-> FALSE]).l
    IN  ToUnsignedInt(IF Negative(ss) THEN Neg64(v) ELSE v)

\* map<string, string> headers, as a sequence of <<name, value>>.
Count(headers, name) == Cardinality({i \in 1..Len(headers) : headers[i][1] = name})
At(headers, name) == headers[CHOOSE i \in 1..Len(headers) : headers[i][1] = name][2]
\* headers.emplace(name, value): nothing happens when name is present.
Emplace(headers, name, value) ==
    IF Count(headers, name) # 0 THEN headers ELSE Append(headers, <<name, value>>)

\* The status of the first line, lines 504-520.
StatusLine(m, nl) ==
    LET space == Find(m, SP, 0)
    IN  IF space # npos /\ space <= nl
          THEN LET space2 == Find(m, SP, space + 1)
                   ss == IF space2 = npos \/ space2 > nl
                           THEN Substr(m, space + 1, nl - space - 1)
                           ELSE Substr(m, space + 1, space2 - space - 1)
               IN  [threw |-> StoulThrows(ss), status |-> Stoul(ss)]
          ELSE [threw |-> FALSE, status |-> 0]

\* A header line, lines 524-527.
HeaderLine(m, nl, nl2, headers) ==
    LET colon == Find(m, ColonSP, nl2)
    IN  IF colon # npos
          THEN Emplace(headers, Substr(m, nl2, colon - nl2),
                       Substr(m, colon + 2, nl - colon - 2))
          ELSE headers

\* The loop of lines 502-532 from one of its iterations on.
ParseLines(m, first, nl, nl2, headers, status) ==
    LET loop[a \in [first : BOOLEAN, nl : Int, nl2 : Int,
                    headers : Seq(Seq(Seq(STRING))), status : Int]] ==
            LET st == IF a.first THEN StatusLine(m, a.nl)
                      ELSE [threw |-> FALSE, status |-> a.status]
                hd == IF a.first THEN a.headers ELSE HeaderLine(m, a.nl, a.nl2, a.headers)
                nextnl == Find(m, CRLF, a.nl + 2)
            IN  IF st.threw THEN [threw |-> TRUE, status |-> 0, headers |-> <<>>]
                ELSE IF nextnl # npos
                  THEN loop[[first |-> FALSE, nl |-> nextnl, nl2 |-> a.nl + 2,
                             headers |-> hd, status |-> st.status]]
                ELSE [threw |-> FALSE, status |-> st.status, headers |-> hd]
    IN  loop[[first |-> first, nl |-> nl, nl2 |-> nl2, headers |-> headers,
              status |-> status]]

\* Lines 496-532: the status and the headers of a response.
ParseResponse(m) == ParseLines(m, TRUE, Find(m, CRLF, 0), 0, <<>>, 0)

\* b64encode(sha1(key + MAGIC_STRING)): an injective function of the key.
AcceptValue(k) == <<"#">> \o k

\* Mutant of UpgradeAccepted: the accept value is not compared with the key.
UpgradeAccepted_AnyAccept(headers, k) ==
    /\ Count(headers, s_Upgrade) # 0
    /\ Count(headers, s_Connection) # 0
    /\ Count(headers, s_SecWebSocketAccept) # 0
    /\ At(headers, s_Upgrade) = s_websocket
    /\ At(headers, s_Connection) = s_Upgrade

\* Lines 561-565: the checks a 101 response has to pass.
UpgradeAccepted(headers, k) ==
    /\ Count(headers, s_Upgrade) # 0
    /\ Count(headers, s_Connection) # 0
    /\ Count(headers, s_SecWebSocketAccept) # 0
    /\ At(headers, s_Upgrade) = s_websocket
    /\ At(headers, s_Connection) = s_Upgrade
    /\ At(headers, s_SecWebSocketAccept) = AcceptValue(k)

\* Lines 536-544: the scheme named by a WWW-Authenticate value.
AuthType(h) ==
    LET st == Find(h, SP, 0) IN IF st = npos THEN h ELSE Substr(h, 0, st)

\* Lines 546-552: the schemes send_auth_response is called for.
Supported(auth_type) ==
    IF win32 THEN auth_type \in {s_NTLM, s_Negotiate} ELSE auth_type = s_Negotiate

\* ------------------------------------------------ the handshake, inputs
MaxHeaders == 3     \* header lines of a 101 response
MaxRounds == 2      \* responses one connection attempt reads

Keys == {<<"k", "1">>, <<"k", "2">>}

Line(name, value) == name \o ColonSP \o value

UpgradeLines ==
    {Line(s_Upgrade, s_websocket), Line(s_Upgrade, s_h2c), Line(s_Connection, s_Upgrade),
     s_XJunk}
      \cup {Line(s_SecWebSocketAccept, AcceptValue(k)) : k \in Keys}

AuthLines ==
    {Line(s_WWWAuthenticate, s_Negotiate), Line(s_WWWAuthenticate, s_NTLM \o SP \o s_token),
     Line(s_WWWAuthenticate, s_Basic)}

RECURSIVE Join(_)
Join(ls) == IF ls = <<>> THEN <<>> ELSE ls[1] \o CRLF \o Join(Tail(ls))

\* A response as recv_http returns it: the lines, each ended by \r\n, and
\* the empty line.
Response(status, ls) == Join(<<status>> \o ls) \o CRLF

Responses ==
    {Response(s_Status101, ls) : ls \in SeqsUpTo(UpgradeLines, MaxHeaders)}
      \cup {Response(s_Status101Bare, ls) :
               ls \in SeqsUpTo(UpgradeLines \ {s_XJunk, Line(s_Upgrade, s_h2c)}, MaxHeaders)}
      \cup {Response(st, ls) : st \in {s_Status401, s_Status200, s_StatusNoCode,
                                       s_StatusNotANumber},
                               ls \in SeqsUpTo(AuthLines, 1)}
      \cup {Response(st, <<Line(s_Upgrade, s_websocket), Line(s_Connection, s_Upgrade),
                           Line(s_SecWebSocketAccept, AcceptValue(k))>>) :
               st \in {s_StatusWrapped, s_StatusTrailing, s_StatusPlus, s_StatusTab,
                       s_StatusVTab, s_StatusNegative},
               k \in Keys}

\* ------------------------------------------------ the constructor
\* A throw out of the constructor (lines 147-152): the object is not
\* constructed, no thread was created, the destructor will not run.
CtorThrows ==
    /\ hs' = "failed"
    /\ UNCHANGED <<rpc, reqs, spc, dpc>>

\* A send_raw of the constructor raises SIGPIPE (::send, line 239, on a
\* connection the peer has closed or reset): the process ends inside the
\* constructor, which neither returns nor throws.  The receive thread was
\* not created.
CtorKilled ==
    /\ hs' = "killed"
    /\ spc' = [t \in Threads |-> "killed"]
    /\ dpc' = "killed"
    /\ UNCHANGED <<rpc, reqs>>

\* What the send_raw of a request comes to in the constructor: "sent",
\* "throw" (::send returned -1 or a short count) and "signal" (SIGPIPE; a
\* _WIN32 build has no such signal, its ::send fails and send_raw throws).
CtorSends == {"sent", "throw", "signal"}

\* open_connexion and the first send_raw of send_handshake, lines 130-131,
\* 49-112 and 478-486.
Connect(connected, fq, k, sent) ==
    /\ hs = "new"
    /\ nrounds' = 0
    /\ mess' = <<>>
    /\ IF connected
         THEN /\ sock' = "open"
              /\ open' = TRUE
              /\ fqdn' = fq
              /\ key' = k
              /\ IF sent = "sent"
                   THEN hs' = "await" /\ reqs' = 1 /\ UNCHANGED <<rpc, spc, dpc>>
                 ELSE IF sent = "signal" /\ ~win32
                   THEN CtorKilled
                 ELSE CtorThrows
         ELSE /\ CtorThrows
              /\ UNCHANGED <<sock, open, fqdn, key>>
    /\ UNCHANGED <<payloadbuf, last_opcode, frame, msg, except, nframes, inbound, cause,
                   sarg, sid, nsends, nwritten, nwaits, cfgVars, trace, ndrain,
                   readReleased, win32>>
    /\ UNCHANGED wireVars

\* recv_http does not return a response, lines 281-284 and 491-492: the peer
\* closed the stream (open = false, "", "Socket closed unexpectedly") or
\* ::recv failed.
HsRecvFail(kind) ==
    /\ hs = "await"
    /\ open' = IF kind = "eof" THEN FALSE ELSE open
    /\ CtorThrows
    /\ UNCHANGED <<payloadbuf, last_opcode, frame, msg, except, nframes, inbound, cause,
                   sarg, sid, nsends, nwritten, nwaits, cfgVars, sock, trace, ndrain,
                   readReleased, key, mess, fqdn, win32, nrounds>>
    /\ UNCHANGED wireVars

\* What a call of send_auth_response does, lines 346-473: "throw" (the
\* provider or send_raw failed), "sent" (a request with an Authorization
\* header was sent), "notsent" (the provider gave no token to send) and
\* "signal" (the send_raw of line 469 raises SIGPIPE and the process ends;
\* in a _WIN32 build, which has no such signal, send_raw throws).
AuthOutcomes == {"throw", "sent", "notsent", "signal"}

\* The requests left unanswered when a response was read: the response
\* answers one of them, or none was outstanding and the peer sent it unasked.
Answered == IF reqs > 0 THEN reqs - 1 ELSE 0

\* One iteration of the loop of send_handshake on the response m, lines
\* 489-566: recv_http returns whatever response arrives, asked for or not.
HsResponse(m) ==
    /\ hs = "await"
    /\ nrounds < MaxRounds
    /\ nrounds' = nrounds + 1
    /\ mess' = m
    /\ \E r \in {ParseResponse(m)} :    \* the parse of lines 496-532, done once
           IF r.threw
             THEN CtorThrows
           ELSE IF r.status = 401 /\ Count(r.headers, s_WWWAuthenticate) # 0
             THEN LET auth_type == AuthType(At(r.headers, s_WWWAuthenticate))
                  IN  IF ~Supported(auth_type)
                        THEN /\ reqs' = Answered
                             /\ UNCHANGED <<hs, rpc, spc, dpc>>
                      ELSE IF auth_type = s_Negotiate /\ ~fqdn
                        THEN CtorThrows
                      ELSE \E auth \in AuthOutcomes :
                             IF auth = "throw" \/ (auth = "signal" /\ win32)
                               THEN CtorThrows
                             ELSE IF auth = "signal"
                               THEN CtorKilled
                             ELSE /\ reqs' = IF auth = "sent" THEN Answered + 1
                                                              ELSE Answered
                                  /\ UNCHANGED <<hs, rpc, spc, dpc>>
           ELSE IF r.status # 101 \/ ~UpgradeAccepted(r.headers, key)
             THEN CtorThrows
           ELSE /\ hs' = "up"
                /\ rpc' = "loop"
                /\ reqs' = Answered
                /\ UNCHANGED <<spc, dpc>>
    /\ UNCHANGED <<open, payloadbuf, last_opcode, frame, msg, except, nframes, inbound,
                   cause, sarg, sid, nsends, nwritten, nwaits, cfgVars, sock, trace,
                   ndrain, readReleased, key, fqdn, win32>>
    /\ UNCHANGED wireVars

\* --------------------------------------- recv_thread, byte by byte
\* The bytes of frames are numbers 0..255.  A uint64_t is kept as its eight
\* bytes, most significant first.
Zero8 == <<0, 0, 0, 0, 0, 0, 0, 0>>

\* if (len == 0) len = 4096, lines 609-610.
RecvDefault == 4096

\* uint64_t len = header[1] & 0x7f, line 698.
Len7(b) == <<0, 0, 0, 0, 0, 0, 0, b % 128>>

\* Mutant of Len16: the two bytes of the extended length are swapped.
Len16_Swapped(extlen) == <<0, 0, 0, 0, 0, 0, extlen[2], extlen[1]>>

\* len = ((uint8_t)extlen[0] << 8) | (uint8_t)extlen[1], line 706.
Len16(extlen) == <<0, 0, 0, 0, 0, 0, extlen[1], extlen[2]>>

\* Lines 713-727: the eight bytes shifted in one after the other.
Len64(extlen) == extlen

\* (unsigned int)len, line 738: the low 32 bits.  (Written as a number of
\* the model, which the frames of PeerFrames allow: their fifth length byte
\* is below 128.)
Low32(len) == ((len[5] * 256 + len[6]) * 256 + len[7]) * 256 + len[8]

\* The number of bytes the payload read asks the transport for, lines 738
\* and 609-614: none when len is 0, and recv's default when the argument,
\* converted to unsigned int, is 0.
PayloadRequest(len) ==
    IF len = Zero8 THEN 0
    ELSE IF Low32(len) = 0 THEN RecvDefault
    ELSE Low32(len)

\* a ^ b for two bytes.
RECURSIVE Xor(_, _)
Xor(a, b) ==
    IF a = 0 THEN b
    ELSE IF b = 0 THEN a
    ELSE 2 * Xor(a \div 2, b \div 2) + ((a + b) % 2)

\* Lines 743-747: payload[i] ^= mask_key[i % 4].
Unmask(payload, mask_key) ==
    [i \in 1..Len(payload) |-> Xor(payload[i], mask_key[((i - 1) % 4) + 1])]

\* dec before the first read of an iteration: buf is the string s of the
\* running call of client_pimpl::recv, as far as it is filled, and used
\* counts the bytes the iteration has taken from the socket.
NoDec ==
    [pc |-> "header", fin |-> FALSE, opcode |-> invalid, mask |-> FALSE, len |-> Zero8,
     mask_key |-> <<>>, nread |-> 0, used |-> 0, buf |-> <<>>]

\* The first n bytes of the receive buffer and what follows them.
Take(n) == SubSeq(wire, 1, n)
Drop(n) == SubSeq(wire, n + 1, Len(wire))

\* bytes = ::recv(sock, buf, left, 0), line 618, in a call recv(n): the bytes
\* that have arrived, left of them at most.
Got(n) == IF Len(wire) < n - Len(dec.buf) THEN Len(wire) ELSE n - Len(dec.buf)
\* s after that call of ::recv, and whether left is 0 (recv(n) then returns
\* s; otherwise the loop of lines 617-645 calls ::recv again).
Filled(n) == dec.buf \o Take(Got(n))
Returns(n) == Len(dec.buf) + Len(wire) >= n

\* One call of ::recv by the receive thread, in recv(n), that returns bytes.
Reads(n) ==
    /\ rpc = "loop"
    /\ open
    /\ sock = "open"
    /\ wire # <<>>
    /\ wire' = Drop(Got(n))
    /\ UNCHANGED <<open, payloadbuf, last_opcode, rpc, msg, except, nframes, inbound, cause,
                   sendVars, cfgVars, sock, trace, dtorVars, readReleased>>
    /\ UNCHANGED <<hsVars, pending, eof, stream, http>>

\* recv(n) has not all its bytes yet: it keeps those it got.
Waits(n) == dec' = [dec EXCEPT !.buf = Filled(n), !.used = dec.used + Got(n)]

\* string header = recv(2) and lines 695-698.
DecHeader ==
    /\ dec.pc = "header"
    /\ Reads(2)
    /\ IF Returns(2)
         THEN LET header == Filled(2)
                  len7 == header[2] % 128
                  mask == header[2] >= 128
              IN  dec' = [pc |-> IF len7 = 126 THEN "ext16"
                                 ELSE IF len7 = 127 THEN "ext64"
                                 ELSE IF mask THEN "mask" ELSE "payload",
                          fin |-> header[1] >= 128,
                          opcode |-> header[1] % 16,
                          mask |-> mask,
                          len |-> Len7(header[2]),
                          mask_key |-> <<>>,
                          nread |-> 0,
                          used |-> dec.used + Got(2),
                          buf |-> <<>>]
         ELSE Waits(2)
    /\ UNCHANGED frame

\* string extlen = recv(2) or recv(8), lines 700-728.
DecExtLen ==
    /\ dec.pc \in {"ext16", "ext64"}
    /\ LET n == IF dec.pc = "ext16" THEN 2 ELSE 8
       IN  /\ Reads(n)
           /\ IF Returns(n)
                THEN dec' = [dec EXCEPT !.pc = IF dec.mask THEN "mask" ELSE "payload",
                                        !.len = IF n = 2 THEN Len16(Filled(2))
                                                ELSE Len64(Filled(8)),
                                        !.used = dec.used + Got(n),
                                        !.buf = <<>>]
                ELSE Waits(n)
    /\ UNCHANGED frame

\* mask_key = recv(4), lines 730-736.
DecMask ==
    /\ dec.pc = "mask"
    /\ Reads(4)
    /\ IF Returns(4)
         THEN dec' = [dec EXCEPT !.pc = "payload", !.mask_key = Filled(4),
                                 !.used = dec.used + Got(4), !.buf = <<>>]
         ELSE Waits(4)
    /\ UNCHANGED frame

\* string payload = len == 0 ? "" : recv((unsigned int)len) and the
\* unmasking, lines 738-747.  The frame is decoded; what recv_thread does
\* with it (lines 749-758) is RecvFrame.
DecPayload ==
    /\ dec.pc = "payload"
    /\ LET n == PayloadRequest(dec.len)
           payload == IF dec.mask THEN Unmask(Filled(n), dec.mask_key) ELSE Filled(n)
       IN  IF n = 0
             THEN /\ rpc = "loop"
                  /\ open
                  /\ dec' = [dec EXCEPT !.pc = "done"]
                  /\ frame' = [fin |-> dec.fin, opcode |-> dec.opcode, payload |-> <<>>]
                  /\ UNCHANGED <<open, payloadbuf, last_opcode, rpc, msg, except, nframes,
                                 inbound, cause, sendVars, cfgVars, sock, trace, dtorVars,
                                 readReleased>>
                  /\ UNCHANGED <<hsVars, wire, pending, eof, stream, http>>
             ELSE /\ Reads(n)
                  /\ IF Returns(n)
                       THEN /\ dec' = [dec EXCEPT !.pc = "done", !.nread = n,
                                                  !.used = dec.used + Got(n), !.buf = <<>>]
                            /\ frame' = [fin |-> dec.fin, opcode |-> dec.opcode,
                                         payload |-> payload]
                       ELSE Waits(n) /\ UNCHANGED frame

\* The bytes the running read of the iteration asks for in all.
Needs ==
    IF dec.pc = "header" THEN 2
    ELSE IF dec.pc = "ext16" THEN 2
    ELSE IF dec.pc = "ext64" THEN 8
    ELSE IF dec.pc = "mask" THEN 4
    ELSE IF dec.pc = "payload" THEN PayloadRequest(dec.len)
    ELSE 0

\* ::recv returns 0 inside recv(n), lines 638-641: the peer has closed its
\* side and every byte it sent was read.  open = false, recv returns "" (the
\* bytes it had got are dropped with s) and the loop breaks at its next test.
DecEof ==
    /\ rpc = "loop"
    /\ open
    /\ sock = "open"
    /\ Needs > 0
    /\ wire = <<>>
    /\ pending = <<>>
    /\ eof
    /\ open' = FALSE
    /\ cause' = "eof"
    /\ dec' = [dec EXCEPT !.pc = "closed", !.buf = <<>>]
    /\ UNCHANGED <<payloadbuf, last_opcode, rpc, frame, msg, except, nframes, inbound,
                   sendVars, cfgVars, sock, trace, dtorVars, readReleased>>
    /\ UNCHANGED <<hsVars, wire, pending, eof, stream, http>>

\* The bytes written to the socket so far, in their order on the socket.
RECURSIVE Flat(_)
Flat(ws) == IF ws = <<>> THEN <<>> ELSE ws[1].bytes \o Flat(Tail(ws))
OnSocket == Flat(SelectSeq(trace, LAMBDA e : e.ev \in {"header", "payload"}))

\* The transport of a connection that is looped back: the bytes written
\* (::send, line 239) arrive in the receive buffer, those of a write that is
\* still running or that failed included.
Deliver ==
    /\ Len(stream) < Len(OnSocket)
    /\ wire' = wire \o SubSeq(OnSocket, Len(stream) + 1, Len(OnSocket))
    /\ stream' = OnSocket
    /\ UNCHANGED <<recvVars, sendVars, cfgVars, sock, trace, dtorVars, readReleased>>
    /\ UNCHANGED <<hsVars, pending, eof, dec, http>>

\* --------------------------------------- recv_thread, byte level, inputs
\* The payload lengths of the frames sent through the loop, and their bytes.
Lengths == {0, 1, 125, 126, 65535, 65536}
Payload(L, b) == [i \in 1..L |-> (i + b) % 256]
SendOpcodes == {invalid, text, binary, close, ping, pong}

\* The frames of a peer: a header of one of the three width classes, with
\* or without a mask key, and the payload bytes that have arrived.
MaskKeys == {<<>>, <<1, 2, 3, 4>>}
Wide ==
    {Zero8, <<0, 0, 0, 0, 0, 0, 0, 1>>, <<0, 0, 0, 0, 0, 1, 0, 0>>, <<0, 0, 0, 1, 0, 0, 0, 0>>,
     <<0, 0, 0, 1, 0, 0, 0, 1>>, <<128, 0, 0, 0, 0, 0, 0, 2>>}
\* The payload bytes of a frame that are in the receive buffer: all of them,
\* or the first 4097 of a payload of 2^32 bytes or more.
Arrived(len) ==
    IF SubSeq(len, 1, 4) = <<0, 0, 0, 0>> THEN Payload(Low32(len), 1)
    ELSE Payload(RecvDefault + 1, 1)
PeerFrame(lenfield, ext, len, mk) ==
    <<128 + text, (IF mk = <<>> THEN 0 ELSE 128) + lenfield>> \o ext \o mk \o Arrived(len)
\* A peer's frames with a payload of 0, 1 or 126 bytes.
ShortFrames ==
    {PeerFrame(n, <<>>, Len7(n), mk) : n \in {0, 1}, mk \in MaskKeys}
      \cup {PeerFrame(126, BE(126, 2), Len16(BE(126, 2)), <<>>)}
\* The first byte of a frame, after which the peer stops.
CutFrames == {<<128 + text>>}
PeerFrames ==
    {PeerFrame(n, <<>>, Len7(n), mk) : n \in {0, 1, 125}, mk \in MaskKeys}
      \cup {PeerFrame(126, BE(n, 2), Len16(BE(n, 2)), mk) :
               n \in {0, 126, 65535}, mk \in MaskKeys}
      \cup {PeerFrame(127, wl, wl, mk) : wl \in Wide, mk \in MaskKeys}

\* --------------------------------------------------------- recv_http
\* char s[4096], line 266.
PeekSize == 4096
s_Terminator == <<CR, LF, CR, LF>>

NoHttp == [pc |-> "idle", buf |-> <<>>, ret |-> <<>>]

\* The transport hands over the next n bytes the peer sent.
Arrive(n) ==
    /\ n \in 1..Len(pending)
    /\ wire' = wire \o SubSeq(pending, 1, n)
    /\ pending' = SubSeq(pending, n + 1, Len(pending))
    /\ UNCHANGED <<recvVars, sendVars, cfgVars, sock, trace, dtorVars, readReleased>>
    /\ UNCHANGED <<hsVars, eof, stream, dec, http>>

\* One iteration of the loop of recv_http, lines 265-321, in which no call
\* of ::recv fails: the peek returns what has arrived (at most sizeof(s)
\* bytes), or 0 at the end of the stream.
RecvHttp ==
    /\ hs = "await"
    /\ http.pc = "reading"
    /\ IF wire = <<>>
         THEN /\ pending = <<>>
              /\ eof
              /\ open' = FALSE
              /\ http' = [http EXCEPT !.pc = "returned", !.ret = <<>>]
              /\ UNCHANGED wire
         ELSE LET bytes == IF Len(wire) < PeekSize THEN Len(wire) ELSE PeekSize
                  buf == http.buf \o Take(bytes)
                  endmsg == Find(Take(bytes), s_Terminator, 0)
              IN  /\ IF endmsg # npos
                       THEN /\ wire' = Drop(endmsg + 4)
                            /\ http' = [pc |-> "returned", buf |-> buf,
                                        ret |-> Substr(buf, 0, Find(buf, s_Terminator, 0) + 4)]
                       ELSE /\ wire' = Drop(bytes)
                            /\ http' = [http EXCEPT !.buf = buf]
                  /\ UNCHANGED open
    /\ UNCHANGED <<payloadbuf, last_opcode, rpc, frame, msg, except, nframes, inbound, cause,
                   sendVars, cfgVars, sock, trace, dtorVars, readReleased>>
    /\ UNCHANGED <<hsVars, pending, eof, stream, dec>>

\* A call of ::recv in recv_http returns -1: lines 273-280, 298-300, 313-315.
RecvHttpThrows ==
    /\ hs = "await"
    /\ http.pc = "reading"
    /\ http' = [http EXCEPT !.pc = "threw"]
    /\ UNCHANGED <<recvVars, sendVars, cfgVars, sock, trace, dtorVars, readReleased>>
    /\ UNCHANGED <<hsVars, wire, pending, eof, stream, dec>>

\* The streams of a peer during the handshake: the response, whole or cut
\* short, and the bytes the peer sends right after it.
s_Head == Response(s_Status101Bare, <<>>)
Trailers == {<<>>, <<"f">>, <<"f", CR, LF, CR, LF, "g">>}
RECURSIVE Prefixes(_)
Prefixes(q) == IF q = <<>> THEN {<<>>} ELSE {q} \cup Prefixes(SubSeq(q, 1, Len(q) - 1))
HttpStreams == UNION {Prefixes(s_Head \o t) : t \in Trailers}

\* ---------------------------------------------------------- specifications
\* The connection right after the constructor returned: the handshake
\* succeeded (open set at line 111) and the receive thread was created.
InitConn ==
    /\ open = TRUE
    /\ payloadbuf = <<>>
    /\ last_opcode = Uninit
    /\ sock = "open"
    /\ rpc = "loop"
    /\ frame = NoFrame
    /\ msg = NoMsg
    /\ except = FALSE
    /\ nframes = 0
    /\ spc = [t \in Threads |-> "idle"]
    /\ sarg = [t \in Threads |-> [op |-> invalid, payload |-> <<>>]]
    /\ sid = [t \in Threads |-> 0]
    /\ nsends = 0
    /\ nwritten = [t \in Threads |-> 0]
    /\ nwaits = [t \in Threads |-> 0]
    /\ trace = <<>>
    /\ dpc = "live"
    /\ ndrain = 0
    /\ readReleased = FALSE
    /\ inbound = <<>>
    /\ cause = "none"
    /\ hs = "up"
    /\ key = <<"k", "1">>
    /\ mess = Response(s_Status101, <<Line(s_Upgrade, s_websocket),
                                      Line(s_Connection, s_Upgrade),
                                      Line(s_SecWebSocketAccept, AcceptValue(<<"k", "1">>))>>)
    /\ fqdn = TRUE
    /\ win32 = FALSE
    /\ reqs = 0
    /\ nrounds = 1

\* The inputs of the steps of ::send: the bytes of thread t's running
\* send_raw, the counts after which a call with n bytes left waits (after
\* one byte and after half of them), and the outcomes paired
\* with these counts.
Sending(t) ==
    IF spc[t] = "header" THEN Header(sarg[t].op, Len(sarg[t].payload))
                         ELSE sarg[t].payload
Stops(n) == {k \in {1, n \div 2} : k \in Blocks(n)}
SendInputs(t) ==
    ((SendOutcomes \ {"part"}) \X {0})
        \cup (IF nwaits[t] < MaxWaits
                THEN {"part"} \X Stops(Len(Sending(t)) - nwritten[t])
                ELSE {})

RecvThread(F) ==
    \/ \E f \in F : RecvFrame(f)
    \/ \E kind \in {"eof", "reset", "error"} : RecvFail(kind)
    \/ \E i \in SendInputs(RecvT) : SendHeader(RecvT, i[1], i[2])
    \/ \E i \in SendInputs(RecvT) : SendPayload(RecvT, i[1], i[2])
    \/ \E returns \in BOOLEAN : Handler(returns)
    \/ LoopExit
    \/ ThreadClearOpen
    \/ \E returns \in BOOLEAN : ThreadNotify(returns)

\* The send calls of the application: text messages of the payloads of
\* inbound frames, and a binary message long enough for its payload write to
\* wait.
AppSends == ({text} \X Payloads) \cup {<<binary, <<1, 2>>>>}
AppSending ==
    \/ \E t \in AppThreads, a \in AppSends : AppSend(t, a[1], a[2])
    \/ \E t \in AppThreads : \E i \in SendInputs(t) : SendHeader(t, i[1], i[2])
    \/ \E t \in AppThreads : \E i \in SendInputs(t) : SendPayload(t, i[1], i[2])

Destructor ==
    \/ \E ok \in BOOLEAN : DtorShutdown(ok)
    \/ DtorDrain
    \/ DtorClose
    \/ DtorJoin

\* The receive thread alone, fed every sequence of frames.
\* No byte of the peer is followed: the specifications that take the frames
\* and the responses as recv_thread and recv_http hand them on.
IdleWire ==
    /\ wire = <<>>
    /\ pending = <<>>
    /\ eof = FALSE
    /\ stream = <<>>
    /\ dec = NoDec
    /\ http = NoHttp

InitRecv == InitConn /\ msg_handler = TRUE /\ disconn_handler = TRUE /\ IdleWire
NextRecv == RecvThread(FedFrames)
SpecRecv == InitRecv /\ [][NextRecv]_vars

\* Application threads sending while the receive thread answers pings; the
\* pong replies count as send calls for MaxSends.
Pings == {f \in Frames : f.fin /\ f.opcode = ping}
NextSend == (nsends < MaxSends /\ RecvThread(Pings)) \/ (nsends >= MaxSends /\ RecvThread({})) \/ AppSending
SpecSend == InitRecv /\ [][NextSend]_vars

\* The life of the connection after the handshake: the receive thread and
\* the destructor.
Init == InitConn /\ msg_handler \in BOOLEAN /\ disconn_handler \in BOOLEAN /\ IdleWire
Next == RecvThread(PlainFrames) \/ Destructor
Spec == Init /\ [][Next]_vars

\* The constructor: connection and handshake.
InitHs ==
    /\ open = FALSE
    /\ payloadbuf = <<>>
    /\ last_opcode = Uninit
    /\ msg_handler = TRUE
    /\ disconn_handler = TRUE
    /\ sock = "none"
    /\ rpc = "none"
    /\ frame = NoFrame
    /\ msg = NoMsg
    /\ except = FALSE
    /\ nframes = 0
    /\ spc = [t \in Threads |-> "idle"]
    /\ sarg = [t \in Threads |-> [op |-> invalid, payload |-> <<>>]]
    /\ sid = [t \in Threads |-> 0]
    /\ nsends = 0
    /\ nwritten = [t \in Threads |-> 0]
    /\ nwaits = [t \in Threads |-> 0]
    /\ trace = <<>>
    /\ dpc = "live"
    /\ ndrain = 0
    /\ readReleased = FALSE
    /\ inbound = <<>>
    /\ cause = "none"
    /\ hs = "new"
    /\ key = <<>>
    /\ mess = <<>>
    /\ fqdn = FALSE
    /\ win32 \in BOOLEAN
    /\ reqs = 0
    /\ nrounds = 0
    /\ IdleWire
NextHs ==
    \/ \E connected \in BOOLEAN, fq \in BOOLEAN, k \in Keys, sent \in CtorSends :
          Connect(connected, fq, k, sent)
    \/ \E kind \in {"eof", "error"} : HsRecvFail(kind)
    \/ \E m \in Responses : HsResponse(m)
SpecHs == InitHs /\ [][NextHs]_vars

\* The constructor facing a peer that answers every request it is sent, with
\* a challenge, a refusal or the upgrade: the constructor runs while it can
\* (it only blocks in recv_http), and a response arrives while a request is
\* unanswered.  The peer need not close the stream.
Answers ==
    {Response(s_Status401, ls) : ls \in SeqsUpTo(AuthLines, 1)}
      \cup {Response(s_Status200, <<>>)}
      \cup {Response(s_Status101, <<Line(s_Upgrade, s_websocket), Line(s_Connection, s_Upgrade),
                                    Line(s_SecWebSocketAccept, AcceptValue(k))>>) : k \in Keys}
Connects ==
    \E connected \in BOOLEAN, fq \in BOOLEAN, k \in Keys, sent \in CtorSends :
        Connect(connected, fq, k, sent)
PeerAnswers == reqs > 0 /\ \E m \in Answers : HsResponse(m)
NextHsFair ==
    \/ Connects
    \/ \E kind \in {"eof", "error"} : HsRecvFail(kind)
    \/ PeerAnswers
SpecHsFair == InitHs /\ [][NextHsFair]_vars /\ WF_vars(Connects) /\ WF_vars(PeerAnswers)

\* The receive thread decoding, byte by byte, one frame: a frame of the
\* peer, or the frame an application thread sends on a connection that is
\* looped back.
MaxSlow == 3        \* bytes of the peer that arrive one at a time
InitWire ==
    /\ InitConn
    /\ msg_handler = TRUE
    /\ disconn_handler = TRUE
    /\ wire = <<>>
    /\ stream \in {<<>>} \cup PeerFrames \cup CutFrames
    /\ pending = stream
    /\ eof \in (IF stream = <<>> THEN {FALSE} ELSE BOOLEAN)
    /\ dec = NoDec
    /\ http = NoHttp
\* The bytes of the peer arrive one at a time, then the rest at once.
Arrives ==
    \E n \in {1, Len(pending)} :
        (n < Len(pending) => Len(stream) - Len(pending) < MaxSlow) /\ Arrive(n)
\* The first bytes of the payloads sent: both values for the short payloads.
Fill(L) == IF L <= 126 THEN Bytes ELSE {1}
NextWire ==
    \/ \E op \in SendOpcodes, L \in Lengths : \E b \in Fill(L) :
          nsends = 0 /\ stream = <<>> /\ AppSend("app1", op, Payload(L, b))
    \/ Arrives
    \/ DecEof
    \/ \E i \in SendInputs("app1") : SendHeader("app1", i[1], i[2])
    \/ \E i \in SendInputs("app1") : SendPayload("app1", i[1], i[2])
    \/ Deliver
    \/ DecHeader
    \/ DecExtLen
    \/ DecMask
    \/ DecPayload
SpecWire == InitWire /\ [][NextWire]_vars

\* The receive thread decoding a frame of the peer while the destructor runs,
\* up to the end of its drain loop.
InitDrain ==
    /\ InitConn
    /\ msg_handler = TRUE
    /\ disconn_handler = TRUE
    /\ wire = <<>>
    /\ stream \in ShortFrames
    /\ pending = stream
    /\ eof \in BOOLEAN
    /\ dec = NoDec
    /\ http = NoHttp
NextDrain ==
    \/ Arrives
    \/ DecHeader
    \/ DecExtLen
    \/ DecMask
    \/ DecPayload
    \/ DecEof
    \/ \E ok \in BOOLEAN : DtorShutdown(ok)
    \/ DtorDrain
SpecDrain == InitDrain /\ [][NextDrain]_vars

\* recv_http reading the response from a stream that arrives in pieces.
InitHttp ==
    /\ open = TRUE
    /\ payloadbuf = <<>>
    /\ last_opcode = Uninit
    /\ msg_handler = TRUE
    /\ disconn_handler = TRUE
    /\ sock = "open"
    /\ rpc = "none"
    /\ frame = NoFrame
    /\ msg = NoMsg
    /\ except = FALSE
    /\ nframes = 0
    /\ spc = [t \in Threads |-> "idle"]
    /\ sarg = [t \in Threads |-> [op |-> invalid, payload |-> <<>>]]
    /\ sid = [t \in Threads |-> 0]
    /\ nsends = 0
    /\ nwritten = [t \in Threads |-> 0]
    /\ nwaits = [t \in Threads |-> 0]
    /\ trace = <<>>
    /\ dpc = "live"
    /\ ndrain = 0
    /\ readReleased = FALSE
    /\ inbound = <<>>
    /\ cause = "none"
    /\ hs = "await"
    /\ key = <<"k", "1">>
    /\ mess = <<>>
    /\ fqdn = TRUE
    /\ win32 = FALSE
    /\ reqs = 1
    /\ nrounds = 0
    /\ wire = <<>>
    /\ stream \in HttpStreams
    /\ pending = stream
    /\ eof \in BOOLEAN
    /\ dec = NoDec
    /\ http = [pc |-> "reading", buf |-> <<>>, ret |-> <<>>]
NextHttp ==
    \/ \E n \in 1..Len(s_Head \o <<"f", CR, LF, CR, LF, "g">>) : Arrive(n)
    \/ RecvHttp
    \/ RecvHttpThrows
SpecHttp == InitHttp /\ [][NextHttp]_vars

\* ------------------------------------------------------------------ claims
IsMsg(e) == e.ev = "msg"
IsWrite(e) == e.ev \in {"header", "payload"}
IsDisconn(e) == e.ev = "disconn"
\* The message-handler invocations, the socket writes and the
\* disconnect-handler invocations so far, each in order.
Handled == SelectSeq(trace, IsMsg)
Written == SelectSeq(trace, IsWrite)
Disconns == SelectSeq(trace, IsDisconn)
\* The receive thread decodes a frame in this step.
DecodesFrame == nframes' = nframes + 1

\* A stream RFC 6455 allows: control frames are not fragmented, a
\* continuation frame (wire opcode 0) comes only inside a fragmented message,
\* a data frame only outside of one, and no frame has a reserved opcode.
RECURSIVE Legal(_, _)
Legal(fs, inMessage) ==
    IF fs = <<>> THEN TRUE
    ELSE IF fs[1].opcode \in {close, ping, pong} THEN fs[1].fin /\ Legal(Tail(fs), inMessage)
    ELSE IF fs[1].opcode = invalid THEN inMessage /\ Legal(Tail(fs), ~fs[1].fin)
    ELSE IF fs[1].opcode \in {text, binary} THEN ~inMessage /\ Legal(Tail(fs), ~fs[1].fin)
    ELSE FALSE

\* C1: whatever frames (of a legal stream) preceded it, the step in which the
\* receive loop decodes a frame with opcode close clears the open flag and starts no
\* dispatch for that frame (no pong, no message-handler call), so that the
\* loop ends at its next test of the flag.
C1_CloseFrameCloses ==
    [][(DecodesFrame /\ Legal(inbound', FALSE) /\ frame'.opcode = close)
          => (~open' /\ rpc' = "loop" /\ msg' = NoMsg)]_vars

\* C2: whatever frames (of a legal stream) preceded it, the step in which the
\* receive loop decodes a frame with opcode ping and payload P starts the send of a
\* pong frame with payload P, to be followed by the message-handler call
\* with opcode ping and payload P.
C2_PingAnswered ==
    [][(DecodesFrame /\ Legal(inbound', FALSE) /\ frame'.opcode = ping)
          => /\ rpc' = "pong"
             /\ spc'[RecvT] = "header"
             /\ sarg'[RecvT] = [op |-> pong, payload |-> frame'.payload]
             /\ msg' = Msg(ping, frame'.payload)]_vars

\* A fragmented message: a FIN=0 frame with a data opcode, FIN=0
\* continuation frames, one FIN=1 continuation frame (wire opcode 0).
IsFragmentedMessage(fs) ==
    /\ Len(fs) >= 2
    /\ ~fs[1].fin /\ fs[1].opcode \in {text, binary}
    /\ \A i \in 2..Len(fs) : fs[i].opcode = invalid /\ (fs[i].fin <=> i = Len(fs))

RECURSIVE Concat(_)
Concat(fs) == IF fs = <<>> THEN <<>> ELSE fs[1].payload \o Concat(Tail(fs))

\* The loop is between two iterations or has ended.
BetweenFrames == rpc \in {"loop", "exit", "notify", "done"}

\* C3: when the frames received are one fragmented message, with payloads of
\* any lengths, exactly one message was dispatched once its last frame is
\* processed, with the opcode of the first fragment and the concatenation of
\* the payloads; the FIN=0 frames dispatched nothing.
C3_FragmentsReassembled ==
    /\ (\A i \in 1..Len(inbound) : ~inbound[i].fin) => Handled = <<>>
    /\ (IsFragmentedMessage(inbound) /\ BetweenFrames)
          => Handled = <<Called(inbound[1].opcode, Concat(inbound))>>

\* C4: whatever legal stream of frames arrives, the message handler is never
\* invoked with the continuation opcode (wire value 0).
C4_NoContinuationDispatched ==
    Legal(inbound, FALSE) => \A i \in 1..Len(Handled) : Handled[i].op # invalid

\* C5: the disconnect handler is invoked at most once, after the
\* open flag was cleared, exactly once when the thread has ended and a
\* handler is registered, and it carries an error exactly when the loop was
\* ended by a fatal error: a transport error other than would-block (a
\* connection reset included) or an exception of the message handler; and
\* none after a close frame or an end of stream.
C5_ErrorIffFatal ==
    /\ Len(Disconns) <= 1
    /\ (rpc = "done" /\ disconn_handler) => Len(Disconns) = 1
    /\ \A i \in 1..Len(Disconns) :
          /\ ~open
          /\ Disconns[i].err <=> cause \in {"reset", "error", "send", "handler"}

\* C6: whatever threads send concurrently, no byte of another frame is on
\* the socket between two bytes of one frame (of its header, of its payload,
\* or one of each).
C6_FramesContiguous ==
    \A i \in 1..Len(Written) : \A k \in (i + 1)..Len(Written) :
        Written[k].id = Written[i].id
        => \A j \in (i + 1)..(k - 1) :
              Written[j].id = Written[i].id \/ Written[j].bytes = <<>>

\* C7: the socket is released only after the receive thread has ended, and
\* the receive thread never reads from a released socket.
C7_JoinBeforeRelease ==
    /\ (sock = "released" => rpc = "done")
    /\ ~readReleased

\* C8: when the destructor has returned, the receive thread has ended and
\* the transport was released, also when the half-close failed.
C8_DestroyReleases ==
    dpc = "done" => (rpc = "done" /\ sock = "released")

\* C9: once the open flag is false it stays false, and it is false from the
\* moment the receive loop was left and the lambda cleared it.
C9_OpenNeverReset ==
    /\ [][~open => ~open']_vars
    /\ [](rpc \in {"notify", "done"} => ~open)

\* C9 witness: the flag is false after frames, the handlers and the whole
\* teardown have run.
C9_Witness ==
    /\ ~open
    /\ nframes > 0
    /\ dpc = "done"
    /\ Len(Handled) > 0

\* The response m has the header line l, and its status line says 101.
HasLine(m, l) == Find(m, CRLF \o l \o CRLF, 0) # npos
Is101(m) == Find(m, s_Status101Bare, 0) = 0

\* C10: the handshake succeeds only on a response that has the lines
\* Upgrade: websocket, Connection: Upgrade and Sec-WebSocket-Accept with the
\* accept value of the key sent; the receive thread exists only after a
\* handshake that succeeded.
C10_UpgradeOnlyIfHeaders ==
    /\ hs = "up" =>
          /\ HasLine(mess, Line(s_Upgrade, s_websocket))
          /\ HasLine(mess, Line(s_Connection, s_Upgrade))
          /\ HasLine(mess, Line(s_SecWebSocketAccept, AcceptValue(key)))
    /\ rpc # "none" => hs = "up"

\* C10 witness: a handshake that succeeded on a 101 response, read after a
\* 401 round, and the receive thread was created.
C10_Witness ==
    /\ hs = "up"
    /\ rpc = "loop"
    /\ nrounds = 2
    /\ Is101(mess)
    /\ HasLine(mess, Line(s_SecWebSocketAccept, AcceptValue(key)))

\* The first line of the response m, and what HTTP makes of it: a status
\* line is the version, a space, a code of exactly three digits and then a
\* space or the end of the line.
FirstLine(m) == Substr(m, 0, Find(m, CRLF, 0))
s_Version == <<"H", "T", "T", "P", "/", "1", ".", "1", " ">>
WellFormedStatusLine(m) ==
    LET l == FirstLine(m)
    IN  /\ Len(l) >= 12
        /\ SubSeq(l, 1, 9) = s_Version
        /\ \A i \in 10..12 : IsDigit(l[i])
        /\ (Len(l) = 12 \/ l[13] = " ")
StatusCode(m) ==
    LET l == FirstLine(m)
    IN  100 * DigitValue(l[10]) + 10 * DigitValue(l[11]) + DigitValue(l[12])

\* C11: the constructor goes on after a response (to success, or to another
\* round of the authentication loop) only when the response has a
\* well-formed status line, with the status 101 for success and 401 for
\* another round; after a failure no receive thread exists and no handler
\* was invoked.
C11_BadStatusFails ==
    /\ hs = "up" => (WellFormedStatusLine(mess) /\ StatusCode(mess) = 101)
    /\ (hs = "await" /\ nrounds > 0)
          => (WellFormedStatusLine(mess) /\ StatusCode(mess) = 401)
    /\ hs = "failed" => (rpc = "none" /\ trace = <<>>)

\* C12: when the constructor has thrown, the socket is not left open: it was
\* never connected or it was closed.
C12_FailureClosesTransport == hs = "failed" => sock \in {"none", "released"}

\* The constructor parses a response in this step.
HsStep == nrounds' = nrounds + 1
\* The response m is a 401 whose WWW-Authenticate line names a scheme this
\* build has no provider call for.
UnsupportedScheme(m) ==
    /\ WellFormedStatusLine(m)
    /\ StatusCode(m) = 401
    /\ \/ HasLine(m, Line(s_WWWAuthenticate, s_Basic))
       \/ ~win32 /\ HasLine(m, Line(s_WWWAuthenticate, s_NTLM \o SP \o s_token))

\* C13: the step that parses a 401 naming an unsupported scheme fails the
\* constructor, and no parse step leaves the constructor waiting for a
\* response with no request unanswered.
C13_UnsupportedSchemeFails ==
    [][HsStep => /\ UnsupportedScheme(mess') => hs' = "failed"
                 /\ hs' = "await" => reqs' > 0]_vars

\* The read and write errors of the receive loop: a read error other than
\* would-block (a connection reset or another one), a write of the pong that
\* failed, and a write of the pong on a connection the peer has closed,
\* which raises SIGPIPE.
Fatal == {"error", "reset", "send", "signal"}

\* C14: a read or write error of the receive loop other than would-block
\* ends the loop with an exception, and once the thread has ended the
\* disconnect handler was given the error; the handler is given no error
\* exactly after an end of stream or a close frame.
C14_OnlyEofOrCloseClean ==
    /\ cause \in Fatal => (except /\ rpc \in {"exit", "notify", "done"})
    /\ \A i \in 1..Len(Disconns) : ~Disconns[i].err <=> cause \in {"eof", "close"}

\* C15: facing a peer that answers every request, the constructor returns or
\* throws, or the process has ended (within the rounds the model follows it
\* for).
C15_AuthLoopTerminates ==
    <>(hs \in {"up", "failed", "killed"} \/ nrounds >= MaxRounds)

\* C17: the destructor takes bytes from the stream only when the receive
\* thread has ended, and so the frame the receive thread decodes is the one
\* the peer sent.
C17_SoleReader ==
    /\ [][ndrain' > ndrain => rpc = "done"]_vars
    /\ [](dec.pc = "done" => dec.used = Len(stream))

\* The handler calls a stream of unfragmented frames leads to: one for each
\* frame other than a close frame, in order.
RECURSIVE Dispatches(_)
Dispatches(fs) ==
    IF fs = <<>> THEN <<>>
    ELSE IF fs[1].opcode = close THEN Dispatches(Tail(fs))
    ELSE <<Called(fs[1].opcode, fs[1].payload)>> \o Dispatches(Tail(fs))

IsPrefix(s, t) == Len(s) <= Len(t) /\ SubSeq(t, 1, Len(s)) = s

\* C20: the disconnect handler is invoked at most once and after it the
\* receive thread invokes no handler and writes nothing; the message handler
\* is invoked by the receive thread only, for the frames in their order of
\* arrival.
C20_HandlersBeforeDisconnect ==
    /\ Len(Disconns) <= 1
    /\ \A i \in 1..Len(trace) : \A j \in (i + 1)..Len(trace) :
          IsDisconn(trace[i]) => trace[j].by # RecvT
    /\ \A i \in 1..Len(trace) : IsMsg(trace[i]) => trace[i].by = RecvT
    /\ Disconns # <<>> => (rpc \in {"done", "killed"} /\ spc[RecvT] \in {"idle", "killed"})
    /\ IsPrefix(Handled, Dispatches(inbound))

\* C20 witness: two messages were handled in their order, a pong was
\* written, then the disconnect handler was invoked.
C20_Witness ==
    /\ Len(Handled) = 2
    /\ Handled[1].op = text
    /\ Handled[2].op = ping
    /\ \E i \in 1..Len(Written) : Written[i].op = pong
    /\ IsDisconn(trace[Len(trace)])

\* C16: when the bytes of one send call (any opcode, a payload of one of the
\* six lengths) are what the receive loop reads, no read of the decoder asks
\* for a byte beyond them, and the decoded frame has FIN = 1, the opcode and
\* the payload of the call, a mask bit with a key of zeros, and no byte
\* written is left unread.
C16_SendDecodeRoundTrip ==
    nsends = 1 =>
        LET sent == Len(Header(sarg["app1"].op, Len(sarg["app1"].payload)))
                      + Len(sarg["app1"].payload)
        IN  /\ dec.used - Len(dec.buf) + Needs <= sent
            /\ dec.pc = "done" =>
                  /\ frame = [fin |-> TRUE, opcode |-> sarg["app1"].op,
                              payload |-> sarg["app1"].payload]
                  /\ dec.mask
                  /\ dec.mask_key = <<0, 0, 0, 0>>
                  /\ dec.used = sent
                  /\ stream = OnSocket
                  /\ wire = <<>>

\* C16 witness: a pong with 126 payload bytes, the shortest payload that
\* takes the 16-bit length form, went through the loop.
C16_Witness ==
    /\ nsends = 1
    /\ dec.pc = "done"
    /\ frame.opcode = pong
    /\ Len(frame.payload) = 126
    /\ Len(stream) = 126 + 8

\* The payload length the header of the frame s declares, as eight bytes.
DeclaredLen(s) ==
    IF s[2] % 128 = 126 THEN <<0, 0, 0, 0, 0, 0, s[3], s[4]>>
    ELSE IF s[2] % 128 = 127 THEN SubSeq(s, 3, 10)
    ELSE <<0, 0, 0, 0, 0, 0, 0, s[2] % 128>>

\* C18: when a frame is decoded, the number of payload bytes read from the
\* transport for it is the length its header declares.
C18_ReadsDeclaredLength == dec.pc = "done" => BE(dec.nread, 8) = DeclaredLen(stream)

\* Where the first terminator of the stream s ends; npos when s has none.
TermEnd(s) ==
    IF Find(s, s_Terminator, 0) = npos THEN npos ELSE Find(s, s_Terminator, 0) + 4

\* C19: however the stream arrives, recv_http returns a response only as
\* the bytes up to the end of the first terminator, leaving every later byte
\* unread; while it reads it has not taken the last byte of the terminator;
\* and it returns the clean close only for a stream that ended without a
\* terminator.
C19_ReadsThroughTerminator ==
    /\ (http.pc = "returned" /\ open) =>
          /\ TermEnd(stream) # npos
          /\ http.ret = SubSeq(stream, 1, TermEnd(stream))
          /\ wire \o pending = SubSeq(stream, TermEnd(stream) + 1, Len(stream))
    /\ (http.pc = "reading" /\ TermEnd(stream) # npos) => Len(http.buf) < TermEnd(stream)
    /\ (http.pc = "returned" /\ ~open) => (http.ret = <<>> /\ TermEnd(stream) = npos)

====
